---- MODULE Spec2Model ----
(***************************************************************************)
(* Map Guessing Game (app.py): a Streamlit script.  Every user event       *)
(* (a guess submitted in the text box, a new choice in the select box, a   *)
(* click on "Reset game") runs the changed widget's callback, if any, and  *)
(* then the whole script from top to bottom against st.session_state.      *)
(* Strings are sequences of one-character strings, so that strip() and     *)
(* title() are computed character by character as Python computes them.    *)
(* An image is its size and the set of pixels painted black over the map   *)
(* file; a label is a box of the size draw.textbbox gives.                 *)
(***************************************************************************)
EXTENDS Integers, Sequences, FiniteSets, TLC

VARIABLES
    map_choice,     \* value of the select box (line 51)
    session_state,  \* st.session_state: a function from the keys present to their values
    all_names,      \* global all_names of the last script run (line 55)
    TOTAL,          \* global TOTAL of the last script run (line 56)
    guessed,        \* global guessed of the last script run (line 70)
    missing,        \* rows of missing.csv built by the last script run (lines 109-111)
    completed,      \* whether the last script run showed the completion message (line 122)
    message,        \* what handle_guess reported in this cycle (lines 93, 95, 97)
    event,          \* the user event that started this cycle, and guessed before it
    correct_log,    \* inputs (folded) reported Correct since the last reset or map switch
    named_log,      \* region names of the map submitted since the last reset or map switch
    image_cache,    \* st.cache_resource of load_image: the image object held per map
    page,           \* what the last script run drew: counter, map image, draw calls
    broken,         \* the files of MAPS that cannot be read
    norm,           \* scratch record of the normalisation round trip
    pixel           \* scratch record of one coordinate transform

vars == <<map_choice, session_state, all_names, TOTAL, guessed, missing,
          completed, message, event, correct_log, named_log, image_cache, page,
          broken,
          norm, pixel>>

gameVars == <<map_choice, session_state, all_names, TOTAL, guessed, missing,
              completed, message, event, correct_log, named_log, image_cache,
              page, broken>>

----------------------------------------------------------------------------
(* Bounds *)

\* longest raw text typed into the guess box
MaxLen == 3

\* longest string fed to the normalisation round trip
MaxNormLen == 3

\* largest |x| and |y| fed to the coordinate transform
MaxCoord == 3

\* largest image width and height fed to the coordinate transform
MaxSide == 4

----------------------------------------------------------------------------
(* Characters *)

\* characters a player types into the guess box
GuessAlphabet == {"a", "b", "A", " "}

\* characters of the normalisation round trip: ASCII letters, a blank, an
\* apostrophe, and U+0130 (capital I with dot above) whose lowercase is the
\* two code points "i" U+0307 (combining dot above)
AsciiAlphabet == {"a", "b", "A", "B", "i", "I", " ", "'"}

Alphabet == AsciiAlphabet \cup {"U0130", "U0307"}

\* width and height of one character of ImageFont.load_default() (line 35),
\* in pixels
CharWidth == 4

CharHeight == 3

\* ord(c)
CodePoint(c) ==
    CASE c = " " -> 32
      [] c = "'" -> 39
      [] c = "A" -> 65
      [] c = "B" -> 66
      [] c = "I" -> 73
      [] c = "a" -> 97
      [] c = "b" -> 98
      [] c = "i" -> 105
      [] c = "U0130" -> 304
      [] c = "U0307" -> 775

\* str.isspace for one character
IsSpace(c) == c = " "

\* the Unicode property Cased, which str.title() tests on every character
IsCased(c) == c \in {"a", "b", "i", "A", "B", "I", "U0130"}

\* full lowercase mapping of one character
LowerFull(c) ==
    CASE c = "A" -> <<"a">>
      [] c = "B" -> <<"b">>
      [] c = "I" -> <<"i">>
      [] c = "U0130" -> <<"i", "U0307">>
      [] OTHER -> <<c>>

\* full titlecase mapping of one character
TitleFull(c) ==
    CASE c = "a" -> <<"A">>
      [] c = "b" -> <<"B">>
      [] c = "i" -> <<"I">>
      [] OTHER -> <<c>>

\* all strings over alphabet A of length at most n
Strings(A, n) == UNION {[1..k -> A] : k \in 0..n}

----------------------------------------------------------------------------
(* str.strip(), str.title() *)

\* an lstrip() that drops one blank only
LStripOnce(s) ==
    IF s # <<>> /\ IsSpace(Head(s)) THEN Tail(s) ELSE s

RECURSIVE LStrip(_)
LStrip(s) ==
    IF s # <<>> /\ IsSpace(Head(s)) THEN LStrip(Tail(s)) ELSE s

RECURSIVE RStrip(_)
RStrip(s) ==
    IF s # <<>> /\ IsSpace(s[Len(s)]) THEN RStrip(SubSeq(s, 1, Len(s) - 1)) ELSE s

\* s.strip()
StrStrip(s) == RStrip(LStrip(s))

\* a title() that titlecases the first letter of each word and leaves the
\* rest of the word as typed
TitleLoopKeepRest(s, previous_is_cased) ==
    [i \in 1..Len(s) |->
        IF (i = 1 /\ ~previous_is_cased) \/ (i > 1 /\ ~IsCased(s[i - 1]))
        THEN TitleFull(s[i])[1] ELSE s[i]]

\* the loop of str.title(): a character that follows a cased character is
\* lowercased, any other character is titlecased
RECURSIVE TitleLoop(_, _)
TitleLoop(s, previous_is_cased) ==
    IF s = <<>> THEN <<>>
    ELSE (IF previous_is_cased THEN LowerFull(Head(s)) ELSE TitleFull(Head(s)))
         \o TitleLoop(Tail(s), IsCased(Head(s)))

\* s.title()
StrTitle(s) == TitleLoop(s, FALSE)

\* .strip() without .title()
NormalizeStripOnly(s) == StrStrip(s)

\* .strip().title() (lines 20 and 88)
Normalize(s) == StrTitle(StrStrip(s))

----------------------------------------------------------------------------
(* sorted() on strings *)

\* s < t as Python compares strings: code point by code point, a proper
\* prefix first
RECURSIVE StrLess(_, _)
StrLess(s, t) ==
    IF t = <<>> THEN FALSE
    ELSE IF s = <<>> THEN TRUE
    ELSE IF Head(s) # Head(t) THEN CodePoint(Head(s)) < CodePoint(Head(t))
    ELSE StrLess(Tail(s), Tail(t))

RECURSIVE Sorted(_)
Sorted(S) ==
    IF S = {} THEN <<>>
    ELSE LET m == CHOOSE x \in S : \A y \in S \ {x} : StrLess(x, y)
         IN <<m>> \o Sorted(S \ {m})

\* set(list)
ToSet(l) == {l[i] : i \in 1..Len(l)}

----------------------------------------------------------------------------
(* Maps and their data *)

MAPS == {"US States", "Indian States", "European Countries",
         "South American Countries"}

\* list(MAPS.keys())[0], the select box's initial value
DefaultMap == "US States"

\* pd.read_csv(MAPS[m]["csv"]): rows of name, x, y
ReadCsv(m) ==
    CASE m = "US States" ->
            << [name |-> <<"A", "b">>, x |-> 10, y |-> 20],
               [name |-> <<"B">>, x |-> -5, y |-> 30] >>
      [] m = "Indian States" ->
            << [name |-> <<"a", " ", "b">>, x |-> 4, y |-> -8],
               [name |-> <<"B", "a">>, x |-> -2, y |-> -7] >>
      [] m = "European Countries" ->
            << [name |-> <<"A", "b">>, x |-> -20, y |-> 14],
               [name |-> <<"B", "b">>, x |-> 16, y |-> -2],
               [name |-> <<"A">>, x |-> 0, y |-> 0] >>
      [] m = "South American Countries" ->
            << [name |-> <<"B">>, x |-> 8, y |-> 8],
               [name |-> <<"A", "a">>, x |-> -6, y |-> -18] >>

\* the body of load_data (lines 19-21): the table with the column
\* name_norm added
AddNameNorm(csv) ==
    [i \in 1..Len(csv) |->
        [name |-> csv[i].name, x |-> csv[i].x, y |-> csv[i].y,
         name_norm |-> Normalize(csv[i].name)]]

\* st.cache_data (line 17): one table per path, computed once
load_data_cache == [m \in MAPS |-> AddNameNorm(ReadCsv(m))]

\* load_data
load_data(m) == load_data_cache[m]

\* set(df["name_norm"].tolist())
NameNormSet(df) == {df[i].name_norm : i \in 1..Len(df)}

\* the normalized names of map m (lines 54-55)
RegionSet(m) == NameNormSet(load_data(m))

----------------------------------------------------------------------------
(* Images *)

\* Image.open(MAPS[m]["image"]).convert("RGBA") (line 25).  An image is
\* the file its pixels come from, its size, and ink: the pixels painted
\* opaque black over the file's content
OpenImage(m) ==
    CASE m = "US States" ->
            [file |-> m, width |-> 100, height |-> 100, ink |-> {}]
      [] m = "Indian States" ->
            [file |-> m, width |-> 40, height |-> 31, ink |-> {}]
      [] m = "European Countries" ->
            [file |-> m, width |-> 61, height |-> 40, ink |-> {}]
      [] m = "South American Countries" ->
            [file |-> m, width |-> 50, height |-> 50, ink |-> {}]

\* round(n2 / 2) for an integer n2: Python rounds a half to the even
\* neighbour
Round(n2) ==
    IF n2 % 2 = 0 THEN n2 \div 2
    ELSE LET lo == (n2 - 1) \div 2
         IN IF lo % 2 = 0 THEN lo ELSE lo + 1

\* int(v) for v = n2 / 2: truncation toward zero
Trunc(n2) == IF n2 >= 0 THEN n2 \div 2 ELSE -((-n2) \div 2)

\* lines 27-30 with the y axis not flipped
turtle_to_pixel_no_flip(x, y, width, height) ==
    <<Round(2 * x + width), Round(height + 2 * y)>>

\* lines 27-30: x + width / 2 and height / 2 - y, rounded.  The
\* coordinates of the tables are whole numbers
turtle_to_pixel(x, y, width, height) ==
    <<Round(2 * x + width), Round(height - 2 * y)>>

\* draw.textbbox((0, 0), text, font=font) (line 42): left, top, right,
\* bottom
textbbox(text) == <<0, 0, CharWidth * Len(text), CharHeight>>

\* df[df["name_norm"] == name].iloc[0] (line 38): the first matching row
FirstRow(df, name) ==
    df[CHOOSE i \in 1..Len(df) :
          /\ df[i].name_norm = name
          /\ \A k \in 1..(i - 1) : df[k].name_norm # name]

\* draw.text((px - tw / 2, py - th / 2), text, ...) (line 43) for the
\* pixel p and the box of the text: the text, twice its position and its
\* size
TextAt(text, p, box) ==
    [text |-> text,
     xy2 |-> <<2 * p[1] - box[3], 2 * p[2] - box[4]>>,
     size |-> <<box[3], box[4]>>]

\* lines 39-43 for one row of the table
RowCall(row, img) ==
    TextAt(row.name, turtle_to_pixel(row.x, row.y, img.width, img.height),
           textbbox(row.name))

\* the draw.text call of line 43 for one name: the text and twice its
\* position, (2 * px - tw, 2 * py - th)
TextCall(name, df, img) == RowCall(FirstRow(df, name), img)

\* the pixels of a box of the given size from (x0, y0), inside the image
Box(x0, y0, size, img) ==
    {p \in (x0..(x0 + size[1] - 1)) \X (y0..(y0 + size[2] - 1)) :
        /\ p[1] \in 0..(img.width - 1)
        /\ p[2] \in 0..(img.height - 1)}

\* the pixels draw.text paints for a call: the box of the text from the
\* (truncated) position
CallInk(call, img) ==
    Box(Trunc(call.xy2[1]), Trunc(call.xy2[2]), call.size, img)

\* lines 38-43 for one name: the draw.text call and the pixels it paints
Label(name, df, img) ==
    [call |-> TextCall(name, df, img),
     ink |-> CallInk(TextCall(name, df, img), img)]

\* the label of every name of every table on the image of its map.  A
\* table and its image always come from the same entry of MAPS (lines 54
\* and 71), and a label depends on the image by its size only
labels ==
    [m \in MAPS |->
        [name \in NameNormSet(load_data(m)) |->
            Label(name, load_data(m), OpenImage(m))]]

\* the entry of MAPS a table was loaded for
MapOf(df) == CHOOSE m \in MAPS : load_data(m) = df

\* draw.text (line 43): the call is made and its pixels are painted
DrawText(drawn, label) ==
    [img |-> [drawn.img EXCEPT !.ink = @ \cup label.ink],
     calls |-> Append(drawn.calls, label.call)]

\* the loop of lines 37-43, from the image and the calls made so far
RECURSIVE DrawLabels(_, _, _)
DrawLabels(names, m, drawn) ==
    IF names = <<>> THEN drawn
    ELSE DrawLabels(Tail(names), m, DrawText(drawn, labels[m][Head(names)]))

\* what a call of render_map_with_labels leaves: the image returned, the
\* draw.text calls made, and the object base_img after the call
Rendered(drawn, base_img) ==
    [img |-> drawn.img, calls |-> drawn.calls, base_img |-> base_img]

\* an image with no draw.text call made on it yet
Undrawn(img) == [img |-> img, calls |-> <<>>]

\* render_map_with_labels drawing on base_img itself, without the copy of
\* line 33
RenderedInPlace(drawn) == Rendered(drawn, drawn.img)

render_in_place(guessed_names, df, base_img) ==
    RenderedInPlace(DrawLabels(guessed_names, MapOf(df), Undrawn(base_img)))

\* render_map_with_labels labelling the newest guess only
render_last_only(guessed_names, df, base_img) ==
    Rendered(DrawLabels(IF guessed_names = <<>> THEN <<>>
                        ELSE <<guessed_names[Len(guessed_names)]>>,
                        MapOf(df), Undrawn(base_img)),
             base_img)

\* render_map_with_labels labelling every row of the table, guessed or not
render_all_regions(guessed_names, df, base_img) ==
    Rendered(DrawLabels([i \in 1..Len(df) |-> df[i].name_norm], MapOf(df),
                        Undrawn(base_img)),
             base_img)

\* render_map_with_labels (lines 32-45): the labels are drawn on a copy
\* of base_img (line 33)
render_map_with_labels(guessed_names, df, base_img) ==
    Rendered(DrawLabels(guessed_names, MapOf(df), Undrawn(base_img)), base_img)

----------------------------------------------------------------------------
(* The script, top to bottom *)

\* st.session_state before the first run of a session: no key is present
EmptySessionState == <<>>

NoMessage == [kind |-> "none", guess |-> <<>>]

\* lines 59-68 with the lists of line 67 and 68 left as they are
SessionStateHandlingKeepGuessed(ss, choice) ==
    IF "map_choice" \notin DOMAIN ss
    THEN [map_choice |-> choice, guessed |-> <<>>, current_guess |-> <<>>]
    ELSE [ss EXCEPT !.map_choice = choice]

\* lines 59-68: initialise on the first run, start over when the select
\* box no longer shows the session's map
SessionStateHandling(ss, choice) ==
    IF "map_choice" \notin DOMAIN ss
    THEN [map_choice |-> choice, guessed |-> <<>>, current_guess |-> <<>>]
    ELSE IF ss.map_choice # choice
    THEN [ss EXCEPT !.map_choice = choice, !.guessed = <<>>,
                    !.current_guess = <<>>]
    ELSE ss

\* line 109 without sorted(): the names in another order
MissingUnsorted(names, g) ==
    LET up == Sorted(names \ ToSet(g))
    IN [i \in 1..Len(up) |-> up[Len(up) + 1 - i]]

\* line 109: sorted(list(all_names - set(guessed)))
Missing(names, g) == Sorted(names \ ToSet(g))

\* line 122 with the message shown one name early
CompletedOneEarly(g, total) == Len(g) + 1 >= total

\* line 122: len(guessed) == TOTAL
Completed(g, total) == Len(g) = total

\* one run of the script (lines 51-123) in which "Reset game" is not
\* clicked: the session state it leaves and the globals it binds
\* lines 70-123 of the script: what is shown, from the session state ss1
\* left by lines 59-68, the table's names and the rendering r of line 80
ShowPage(ss1, choice, names, cache, r) ==
    [session_state |-> ss1,
     all_names |-> names,
     TOTAL |-> Cardinality(names),
     guessed |-> ss1.guessed,
     missing |-> Missing(names, ss1.guessed),
     completed |-> Completed(ss1.guessed, Cardinality(names)),
     image_cache |-> [cache EXCEPT ![choice] = r.base_img],
     page |-> [exception |-> "none",
               subheader |-> <<Len(ss1.guessed), Cardinality(names)>>,
               progress |-> <<Len(ss1.guessed), Cardinality(names)>>,
               map_img |-> r.img,
               calls |-> r.calls,
               text_input |-> TRUE]]

\* no image
NoImage == [file |-> "", width |-> 0, height |-> 0, ink |-> {}]

\* the page of a run that an uncaught exception stopped before line 81:
\* the select box and the exception, nothing else
ExceptionPage(exception) ==
    [exception |-> exception,
     subheader |-> <<0, 0>>,
     progress |-> <<0, 0>>,
     map_img |-> NoImage,
     calls |-> <<>>,
     text_input |-> FALSE]

\* a run stopped by an exception after lines 54-70 have run on the session
\* state: the table's names and guessed are bound, nothing below is drawn
StoppedAfterSetup(ss1, names, cache, exception) ==
    [session_state |-> ss1,
     all_names |-> names,
     TOTAL |-> Cardinality(names),
     guessed |-> ss1.guessed,
     missing |-> <<>>,
     completed |-> FALSE,
     image_cache |-> cache,
     page |-> ExceptionPage(exception)]

\* lines 54-56 and 70-80: the table, the base image and the rendering.
\* For a guessed name that is in no row of the table, .iloc[0] (line 38)
\* raises IndexError
LoadAndRender(ss1, choice, df, cache) ==
    IF ToSet(ss1.guessed) \subseteq NameNormSet(df)
    THEN ShowPage(ss1, choice, NameNormSet(df), cache,
                  render_map_with_labels(ss1.guessed, df, cache[choice]))
    ELSE StoppedAfterSetup(ss1, NameNormSet(df), cache,
                           "render_map_with_labels")

\* a run that stops at line 54: pd.read_csv raises, nothing below has run
DataLoadFailed(ss, cache) ==
    [session_state |-> ss,
     all_names |-> {},
     TOTAL |-> 0,
     guessed |-> <<>>,
     missing |-> <<>>,
     completed |-> FALSE,
     image_cache |-> cache,
     page |-> ExceptionPage("load_data")]

\* one run of the script (lines 51-123) with the images held in cache
RunScriptWith(ss, choice, cache) ==
    IF <<choice, "csv">> \in broken
    THEN DataLoadFailed(ss, cache)
    ELSE IF <<choice, "image">> \in broken
    THEN StoppedAfterSetup(SessionStateHandling(ss, choice),
                           NameNormSet(load_data(choice)), cache,
                           "load_image")
    ELSE LoadAndRender(SessionStateHandling(ss, choice), choice,
                       load_data(choice), cache)

\* a run of the script with the cached images as they are now
RunScript(ss, choice) == RunScriptWith(ss, choice, image_cache)

\* the variables after a run of the script
ScriptRan(run) ==
    /\ session_state' = run.session_state
    /\ all_names' = run.all_names
    /\ TOTAL' = run.TOTAL
    /\ guessed' = run.guessed
    /\ missing' = run.missing
    /\ completed' = run.completed
    /\ image_cache' = run.image_cache
    /\ page' = run.page

\* handle_guess without the test of line 90
handle_guess_no_dup_check(ss, names, g) ==
    LET guess == Normalize(ss.current_guess)
        ss1 == IF guess \in names
               THEN [ss EXCEPT !.guessed = Append(g, guess)] ELSE ss
    IN [session_state |-> [ss1 EXCEPT !.current_guess = <<>>],
        message |->
            IF guess \in names THEN [kind |-> "success", guess |-> guess]
            ELSE IF guess # <<>> THEN [kind |-> "error", guess |-> guess]
            ELSE NoMessage]

\* handle_guess with line 91 assigning a new list instead of appending
handle_guess_replace_list(ss, names, g) ==
    LET guess == Normalize(ss.current_guess)
        fresh == guess \in names /\ guess \notin ToSet(g)
        ss1 == IF fresh THEN [ss EXCEPT !.guessed = <<guess>>] ELSE ss
    IN [session_state |-> [ss1 EXCEPT !.current_guess = <<>>],
        message |->
            IF guess \in names
            THEN IF fresh THEN [kind |-> "success", guess |-> guess]
                 ELSE [kind |-> "info", guess |-> guess]
            ELSE IF guess # <<>> THEN [kind |-> "error", guess |-> guess]
            ELSE NoMessage]

\* handle_guess with lines 91-92 moved out of the test of line 89
handle_guess_append_invalid(ss, names, g) ==
    LET guess == Normalize(ss.current_guess)
        ss1 == IF guess # <<>> /\ guess \notin ToSet(g)
               THEN [ss EXCEPT !.guessed = Append(g, guess)] ELSE ss
    IN [session_state |-> [ss1 EXCEPT !.current_guess = <<>>],
        message |->
            IF guess \in names
            THEN IF guess \notin ToSet(g)
                 THEN [kind |-> "success", guess |-> guess]
                 ELSE [kind |-> "info", guess |-> guess]
            ELSE IF guess # <<>> THEN [kind |-> "error", guess |-> guess]
            ELSE NoMessage]

\* handle_guess with a plain else in place of the elif of line 94
handle_guess_else_error(ss, names, g) ==
    LET guess == Normalize(ss.current_guess)
        ss1 == IF guess \in names /\ guess \notin ToSet(g)
               THEN [ss EXCEPT !.guessed = Append(g, guess)] ELSE ss
    IN [session_state |-> [ss1 EXCEPT !.current_guess = <<>>],
        message |->
            IF guess \in names
            THEN IF guess \notin ToSet(g)
                 THEN [kind |-> "success", guess |-> guess]
                 ELSE [kind |-> "info", guess |-> guess]
            ELSE [kind |-> "error", guess |-> guess]]

\* lines 87-98: the text box's on_change callback.  It reads the globals
\* all_names and guessed bound by the last run of the script; guessed is
\* the list object held in st.session_state.guessed, so the append shows
\* in both.
handle_guess(ss, names, g) ==
    LET guess == Normalize(ss.current_guess)
        g1 == IF guess \in names /\ guess \notin ToSet(g)
              THEN Append(g, guess) ELSE g
        ss1 == IF guess \in names /\ guess \notin ToSet(g)
               THEN [ss EXCEPT !.guessed = g1] ELSE ss
    IN [session_state |-> [ss1 EXCEPT !.current_guess = <<>>],
        message |->
            IF guess \in names
            THEN IF guess \notin ToSet(g)
                 THEN [kind |-> "success", guess |-> guess]
                 ELSE [kind |-> "info", guess |-> guess]
            ELSE IF guess # <<>>
                 THEN [kind |-> "error", guess |-> guess]
                 ELSE NoMessage]

----------------------------------------------------------------------------
(* User events *)

\* raw texts a player submits
RawInputs == Strings(GuessAlphabet, MaxLen)

\* s.lower() character by character
LowerCased(s) == [i \in 1..Len(s) |-> LowerFull(s[i])[1]]

\* a raw text up to surrounding blanks and letter case
Folded(raw) ==
    LET nonblank == {i \in 1..Len(raw) : raw[i] # " "}
    IN IF nonblank = {} THEN <<>>
       ELSE LET first == CHOOSE i \in nonblank : \A k \in nonblank : i <= k
                last == CHOOSE i \in nonblank : \A k \in nonblank : k <= i
            IN LowerCased(SubSeq(raw, first, last))

\* texts typed in a session with a file missing: the names of the tables as
\* they are written there
LoadInputs == {ReadCsv(m)[i].name : m \in MAPS, i \in 1..2}

\* the normalized form of every raw text a player submits
NormalizedInput ==
    [raw \in RawInputs \cup LoadInputs |-> Normalize(raw)]

\* a guess cycle with the render made before the update: the page is
\* drawn from the session state handle_guess found, not the one it left
SubmitRenderFirst(ss, names, g, choice, raw) ==
    LET typed == [ss EXCEPT !.current_guess = raw]
        cb == handle_guess(typed, names, g)
        stale == RunScript(ss, choice)
    IN [message |-> cb.message,
        run |-> [stale EXCEPT !.session_state = cb.session_state]]

\* a guess cycle: the text box takes the value raw, handle_guess runs with
\* the globals of the last run, then the script reruns
Submit(ss, names, g, choice, raw) ==
    LET typed == [ss EXCEPT !.current_guess = raw]
        cb == handle_guess(typed, names, g)
    IN [message |-> cb.message,
        run |-> RunScript(cb.session_state, choice)]

\* a reset cycle without the st.rerun() of line 116: the page keeps what
\* the run drew before line 115
ResetRunNoRerun(ss, choice) ==
    LET first == RunScript(ss, choice)
    IN [first EXCEPT !.session_state =
            [first.session_state EXCEPT !.guessed = <<>>]]

\* a reset cycle: the script runs with the button set, line 115 replaces
\* the list and st.rerun() (line 116) runs the script once more
ResetRun(ss, choice) ==
    LET first == RunScript(ss, choice)
        cleared == [first.session_state EXCEPT !.guessed = <<>>]
    IN RunScriptWith(cleared, choice, first.image_cache)

\* the player types raw into the text box and presses Enter; on_change
\* fires only when the value of the box changed
SubmitGuess(raw) ==
    /\ page.text_input
    /\ raw # session_state.current_guess
    /\ \E r \in {Submit(session_state, all_names, guessed, map_choice, raw)} :
          /\ message' = r.message
          /\ ScriptRan(r.run)
          /\ correct_log' = IF r.message.kind = "success"
                            THEN correct_log \cup {Folded(raw)}
                            ELSE correct_log
    /\ named_log' = named_log \cup ({NormalizedInput[raw]} \cap RegionSet(map_choice))
    /\ event' = [kind |-> "guess", raw |-> raw, map |-> map_choice,
                 before |-> session_state.guessed]
    /\ UNCHANGED <<map_choice, broken, norm, pixel>>

\* the player picks another map in the select box: the script reruns
SelectMap(m) ==
    /\ m # map_choice
    /\ map_choice' = m
    /\ message' = NoMessage
    /\ \E run \in {RunScript(session_state, m)} : ScriptRan(run)
    /\ correct_log' = {}
    /\ named_log' = {}
    /\ event' = [kind |-> "select", raw |-> <<>>, map |-> m,
                 before |-> IF "guessed" \in DOMAIN session_state
                            THEN session_state.guessed ELSE <<>>]
    /\ UNCHANGED <<broken, norm, pixel>>

\* the player clicks "Reset game"
ResetGame ==
    /\ page.text_input
    /\ \E run \in {ResetRun(session_state, map_choice)} : ScriptRan(run)
    /\ message' = NoMessage
    /\ correct_log' = {}
    /\ named_log' = {}
    /\ event' = [kind |-> "reset", raw |-> <<>>, map |-> map_choice,
                 before |-> session_state.guessed]
    /\ UNCHANGED <<map_choice, broken, norm, pixel>>

----------------------------------------------------------------------------
(* The normalisation round trip *)

NormIdle == [pc |-> "idle", s |-> <<>>, once |-> <<>>, twice |-> <<>>]

NormalizeOnce ==
    /\ norm.pc = "input"
    /\ norm' = [norm EXCEPT !.pc = "once", !.once = Normalize(norm.s)]
    /\ UNCHANGED <<gameVars, pixel>>

NormalizeTwice ==
    /\ norm.pc = "once"
    /\ norm' = [norm EXCEPT !.pc = "twice", !.twice = Normalize(norm.once)]
    /\ UNCHANGED <<gameVars, pixel>>

----------------------------------------------------------------------------
(* The coordinate transform *)

\* no coordinate to transform
PixelIdle == [pc |-> "idle", x |-> 0, y |-> 0, width |-> 0, height |-> 0,
              px |-> 0, py |-> 0]

\* px, py = turtle_to_pixel(x, y, img.width, img.height) (line 40)
TransformCoordinate ==
    /\ pixel.pc = "input"
    /\ \E p \in {turtle_to_pixel(pixel.x, pixel.y, pixel.width, pixel.height)} :
          pixel' = [pixel EXCEPT !.pc = "done", !.px = p[1], !.py = p[2]]
    /\ UNCHANGED <<gameVars, norm>>

----------------------------------------------------------------------------
(* Specifications *)

\* the page after the first run of the script in a new session
FirstRun ==
    /\ map_choice = DefaultMap
    /\ LET run == RunScriptWith(EmptySessionState, DefaultMap,
                                [m \in MAPS |-> OpenImage(m)])
       IN /\ session_state = run.session_state
          /\ image_cache = run.image_cache
          /\ page = run.page
          /\ all_names = run.all_names
          /\ TOTAL = run.TOTAL
          /\ guessed = run.guessed
          /\ missing = run.missing
          /\ completed = run.completed
    /\ message = NoMessage
    /\ event = [kind |-> "load", raw |-> <<>>, map |-> DefaultMap,
                before |-> <<>>]
    /\ correct_log = {}
    /\ named_log = {}

\* a new session with every file of MAPS readable
GameInit ==
    /\ broken = {}
    /\ FirstRun

Init ==
    /\ GameInit
    /\ norm = NormIdle
    /\ pixel = PixelIdle

Next ==
    \/ \E raw \in RawInputs : SubmitGuess(raw)
    \/ \E m \in MAPS : SelectMap(m)
    \/ ResetGame

Spec == Init /\ [][Next]_vars

NormInit ==
    /\ GameInit
    /\ \E s \in Strings(Alphabet, MaxNormLen) :
          norm = [pc |-> "input", s |-> s, once |-> <<>>, twice |-> <<>>]
    /\ pixel = PixelIdle

NormNext ==
    \/ NormalizeOnce
    \/ NormalizeTwice

NormSpec == NormInit /\ [][NormNext]_vars

\* region coordinates and image sizes for the coordinate transform
PixelInit ==
    /\ GameInit
    /\ norm = NormIdle
    /\ \E x \in -MaxCoord..MaxCoord, y \in -MaxCoord..MaxCoord,
          width \in 1..MaxSide, height \in 1..MaxSide :
          pixel = [pc |-> "input", x |-> x, y |-> y, width |-> width,
                   height |-> height, px |-> 0, py |-> 0]

PixelNext == TransformCoordinate

PixelSpec == PixelInit /\ [][PixelNext]_vars

\* the files of MAPS (lines 9-14): the table and the image of every map
Files == MAPS \X {"csv", "image"}

\* a new session with one file of MAPS missing or unreadable
LoadInit ==
    /\ \E f \in Files : broken = {f}
    /\ FirstRun
    /\ norm = NormIdle
    /\ pixel = PixelIdle

LoadNext ==
    \/ \E raw \in LoadInputs : SubmitGuess(raw)
    \/ \E m \in MAPS : SelectMap(m)
    \/ ResetGame

LoadSpec == LoadInit /\ [][LoadNext]_vars

----------------------------------------------------------------------------
(* Claims *)

\* the raw texts that equal raw up to surrounding blanks and letter case
VariantsOf ==
    [raw \in RawInputs |->
        {r \in RawInputs \ {<<>>} : Folded(r) = Folded(raw)}]

\* the session as it stood before the guess that event records
BeforeGuess ==
    [map_choice |-> event.map, guessed |-> event.before,
     current_guess |-> <<>>]

\* C1: in every reachable state the guessed names are normalized names of
\* the selected map's RegionSet, and TOTAL is the number of its regions
C1_GuessedWithinRegionSet ==
    LET rs == RegionSet(session_state.map_choice)
    IN /\ session_state.map_choice = map_choice
       /\ ToSet(session_state.guessed) \subseteq rs
       /\ ToSet(guessed) \subseteq rs
       /\ TOTAL = Cardinality(rs)

\* a second name has just been guessed on a map reached by a switch
C1_Witness ==
    /\ event.kind = "guess"
    /\ message.kind = "success"
    /\ session_state.map_choice = "European Countries"
    /\ Len(session_state.guessed) = 2

\* C2: a guess whose raw text is, up to blanks and case, one that was
\* reported Correct since the last reset or map switch is reported
\* AlreadyGuessed, and leaves the guessed names as they are
C2_VariantsAlreadyGuessed ==
    [][(event'.kind = "guess" /\ Folded(event'.raw) \in correct_log)
          => /\ message'.kind = "info"
             /\ session_state'.guessed = session_state.guessed]_vars

\* a variant of an earlier Correct input has just been answered
C2_Witness ==
    /\ event.kind = "guess"
    /\ message.kind = "info"
    /\ Folded(event.raw) \in correct_log
    /\ event.raw # message.guess

\* C3: the guess just handled has the outcome kind and the resulting
\* guessed names that every raw text equal to it up to surrounding blanks
\* and letter case has when submitted in the same session state
C3_VariantsSameOutcome ==
    event.kind = "guess" =>
        \A r \in VariantsOf[event.raw] :
            LET o == Submit(BeforeGuess, RegionSet(event.map), event.before,
                            event.map, r)
            IN /\ o.message.kind = message.kind
               /\ o.run.session_state.guessed = session_state.guessed
               /\ o.run.guessed = guessed

\* a raw text that is not in normalized form was accepted, and it has
\* other variants
C3_Witness ==
    /\ event.kind = "guess"
    /\ message.kind = "success"
    /\ event.raw # message.guess
    /\ Cardinality(VariantsOf[event.raw]) > 2

\* C4: a guess whose normalized form is not empty is reported Invalid
\* exactly when that form is not in the active RegionSet, AlreadyGuessed
\* exactly when it is in the RegionSet and was guessed before, Correct
\* exactly when it is in the RegionSet and was not guessed before; one of
\* the three is reported
C4_OutcomeByMembership ==
    (event.kind = "guess" /\ Normalize(event.raw) # <<>>) =>
        LET n == Normalize(event.raw)
            rs == RegionSet(session_state.map_choice)
            was == n \in ToSet(event.before)
        IN /\ message.kind \in {"error", "info", "success"}
           /\ message.guess = n
           /\ message.kind = "error" <=> n \notin rs
           /\ message.kind = "info" <=> (n \in rs /\ was)
           /\ message.kind = "success" <=> (n \in rs /\ ~was)

\* a name of another map was rejected on a map with a name guessed
C4_Witness ==
    /\ event.kind = "guess"
    /\ message.kind = "error"
    /\ session_state.guessed # <<>>
    /\ \E m \in MAPS : message.guess \in RegionSet(m)

\* C5: a guess changes the guessed names only when it is reported
\* Correct, and then appends the one normalized name; reported Invalid or
\* AlreadyGuessed it leaves the guessed names and the selected map as
\* they were
C5_OnlyCorrectChangesGuessed ==
    event.kind = "guess" =>
        /\ message.kind = "success" =>
              /\ session_state.guessed = Append(event.before, message.guess)
              /\ message.guess = Normalize(event.raw)
        /\ message.kind # "success" =>
              /\ session_state.guessed = event.before
              /\ session_state.map_choice = event.map
              /\ map_choice = event.map
        /\ guessed = session_state.guessed

\* an invalid guess was discarded with one name already guessed
C5_Witness ==
    /\ event.kind = "guess"
    /\ message.kind = "error"
    /\ Len(event.before) = 1
    /\ session_state.guessed = event.before

\* C6: a step that is neither a reset nor a map switch removes no name
\* from the guessed names: the list before the step is a prefix of the
\* list after it
C6_GuessedOnlyGrows ==
    [][event'.kind \notin {"reset", "select"}
          => /\ Len(session_state'.guessed) >= Len(session_state.guessed)
             /\ ToSet(session_state.guessed) \subseteq ToSet(session_state'.guessed)
             /\ SubSeq(session_state'.guessed, 1, Len(session_state.guessed))
                   = session_state.guessed]_vars

\* the guessed names have grown to a third name
C6_Witness ==
    /\ event.kind = "guess"
    /\ Len(event.before) = 2
    /\ Len(session_state.guessed) = 3

\* C7: a switch of the select box to another map leaves the session on
\* the new map with no name guessed and TOTAL the size of the new map's
\* RegionSet; every name of the new map is missing again, also a name the
\* old map shares and had guessed
C7_MapSwitchDiscardsProgress ==
    [][map_choice' # map_choice
          => /\ session_state'.map_choice = map_choice'
             /\ session_state'.guessed = <<>>
             /\ guessed' = <<>>
             /\ TOTAL' = Cardinality(RegionSet(map_choice'))
             /\ ToSet(missing') = RegionSet(map_choice')
             /\ ~completed']_vars

\* the map just left had guessed a name that the new map has too
C7_Witness ==
    /\ event.kind = "select"
    /\ \E n \in ToSet(event.before) : n \in RegionSet(map_choice)
    /\ session_state.guessed = <<>>

\* C8: a reset leaves no name guessed, and leaves the selected map, its
\* names and TOTAL as they were; a reset right after a reset changes
\* nothing of the session or the page
C8_ResetClearsAndIsIdempotent ==
    [][event'.kind = "reset"
          => /\ session_state'.guessed = <<>>
             /\ guessed' = <<>>
             /\ missing' = Sorted(all_names)
             /\ map_choice' = map_choice
             /\ session_state'.map_choice = session_state.map_choice
             /\ all_names' = all_names
             /\ TOTAL' = TOTAL
             /\ event.kind = "reset" =>
                   UNCHANGED <<map_choice, session_state, all_names, TOTAL,
                               guessed, missing, completed, message>>]_vars

\* a reset has cleared a map that had names guessed
C8_Witness ==
    /\ event.kind = "reset"
    /\ Len(event.before) = 2
    /\ session_state.map_choice # DefaultMap
    /\ session_state.guessed = <<>>

\* C9: the missing-names export holds exactly the normalized names of the
\* active map that are not guessed, each once, in ascending order; so it
\* is fixed by the set of guessed names, whatever their order
C9_MissingIsSortedDifference ==
    LET rest == RegionSet(session_state.map_choice)
                    \ ToSet(session_state.guessed)
    IN /\ ToSet(missing) = rest
       /\ Len(missing) = Cardinality(rest)
       /\ \A i \in 1..Len(missing) : \A j \in 1..Len(missing) :
             i < j => StrLess(missing[i], missing[j])

\* two names are missing after a guess on the map of three names
C9_Witness ==
    /\ event.kind = "guess"
    /\ Len(session_state.guessed) = 1
    /\ Len(missing) = 2

\* C10 as stated: normalizing a normalized string changes nothing, for
\* every input string
C10_NormalizeIdempotent ==
    norm.pc = "twice" => norm.twice = norm.once

\* C10 amended: normalizing a normalized string changes nothing, for every
\* input string of ASCII characters
C10_NormalizeIdempotentAscii ==
    (norm.pc = "twice" /\ \A i \in 1..Len(norm.s) : norm.s[i] \in AsciiAlphabet)
        => norm.twice = norm.once

\* an ASCII string that normalization changes has been normalized twice
C10_Witness ==
    /\ norm.pc = "twice"
    /\ \A i \in 1..Len(norm.s) : norm.s[i] \in AsciiAlphabet
    /\ Len(norm.s) = MaxNormLen
    /\ norm.s[1] = " "
    /\ norm.once # norm.s
    /\ norm.once # <<>>


\* the draw.text call is the label of row r on an image of the size of img:
\* r's original name, centred on r's transformed coordinate
IsLabelOf(call, r, img) ==
    /\ call.text = r.name
    /\ call.xy2[1] + call.size[1]
          = 2 * turtle_to_pixel(r.x, r.y, img.width, img.height)[1]
    /\ call.xy2[2] + call.size[2]
          = 2 * turtle_to_pixel(r.x, r.y, img.width, img.height)[2]

\* C11: the rendered map carries exactly one label for every guessed region,
\* the region's name centred on its transformed coordinate, and no label
\* for a region not guessed; with every region guessed the map carries as
\* many labels as the RegionSet has regions
C11_LabelsExactlyGuessed ==
    LET df == load_data(map_choice)
        img == image_cache[map_choice]
    IN /\ \A i \in 1..Len(df) :
             Cardinality({k \in 1..Len(page.calls) :
                             IsLabelOf(page.calls[k], df[i], img)})
                = IF df[i].name_norm \in ToSet(guessed) THEN 1 ELSE 0
       /\ Len(page.calls) = Cardinality(ToSet(guessed))
       /\ ToSet(guessed) = RegionSet(map_choice)
             => Len(page.calls) = Cardinality(RegionSet(map_choice))

\* two of three regions are labelled, the third is not yet guessed
C11_Witness ==
    /\ message.kind = "success"
    /\ Len(page.calls) = 2
    /\ Cardinality(RegionSet(map_choice)) = 3


\* C12: no render changes the base image: the cached image of every map is
\* the file as it was opened, and a render with nothing guessed, whenever
\* it is made, gives the unlabelled base image
C12_BaseImageNeverMutated ==
    /\ \A m \in MAPS : image_cache[m] = OpenImage(m)
    /\ render_map_with_labels(<<>>, load_data(map_choice),
                              image_cache[map_choice]).img
          = OpenImage(map_choice)
    /\ guessed = <<>> => page.map_img = OpenImage(map_choice)

\* a reset after labelled renders: the map is rendered with nothing guessed
C12_Witness ==
    /\ event.kind = "reset"
    /\ Len(event.before) >= 2
    /\ page.calls = <<>>
    /\ page.map_img.ink = {}


\* every order in which the names of the set S can have been guessed
Orders(S) == {s \in [1..Cardinality(S) -> S] : ToSet(s) = S}

\* the pixels the draw.text calls of the page cover, counted call by call
CallPixels ==
    LET RECURSIVE Sum(_)
        Sum(k) == IF k = 0 THEN 0
                  ELSE Cardinality(CallInk(page.calls[k], page.map_img))
                          + Sum(k - 1)
    IN Sum(Len(page.calls))

C14_BlankGuessIsSilentNoOp ==
    (event.kind = "guess" /\ Normalize(event.raw) = <<>>)
       => /\ message = NoMessage
          /\ session_state.guessed = event.before
          /\ guessed = event.before
          /\ page.subheader[1] = Len(event.before)
          /\ Len(page.calls) = Len(event.before)

\* a text of spaces only is submitted after a name was guessed
C14_Witness ==
    /\ event.kind = "guess"
    /\ Len(event.raw) = MaxLen
    /\ \A i \in 1..Len(event.raw) : event.raw[i] = " "
    /\ event.before # <<>>


\* C15: a guess is one cycle of update, then render.  What is shown is
\* drawn from the session state the update left, and right after a Correct
\* guess the image carries the label of the new name, the counter has
\* counted it and the missing-names export no longer lists it
C15_PageShowsStateAfterUpdate ==
    /\ guessed = session_state.guessed
    /\ page.subheader = <<Len(session_state.guessed), TOTAL>>
    /\ Len(page.calls) = Len(session_state.guessed)
    /\ missing = Missing(all_names, session_state.guessed)
    /\ message.kind = "success"
          => /\ event.kind = "guess"
             /\ message.guess = Normalize(event.raw)
             /\ message.guess \notin ToSet(event.before)
             /\ session_state.guessed = Append(event.before, message.guess)
             /\ page.subheader[1] = Len(event.before) + 1
             /\ \E k \in 1..Len(page.calls) :
                    IsLabelOf(page.calls[k],
                              FirstRow(load_data(map_choice), message.guess),
                              page.map_img)
             /\ message.guess \notin ToSet(missing)
             /\ message.guess \in ToSet(Missing(all_names, event.before))

\* a Correct guess that is not the first one of the map
C15_Witness ==
    /\ message.kind = "success"
    /\ event.before # <<>>
    /\ page.subheader[1] = 2
    /\ missing # <<>>


\* C16: turtle_to_pixel gives the whole numbers nearest to x + W/2 and
\* H/2 - y (origin at the image centre, y axis pointing up); for an image
\* of even width and height these are x + W/2 and H/2 - y themselves, and
\* (10, 20) on a 100 x 100 image gives (60, 30)
C16_TurtleToPixel ==
    /\ pixel.pc = "done"
          => /\ 2 * pixel.px - (2 * pixel.x + pixel.width) \in -1..1
             /\ 2 * pixel.py - (pixel.height - 2 * pixel.y) \in -1..1
             /\ pixel.width % 2 = 0 => 2 * pixel.px = 2 * pixel.x + pixel.width
             /\ pixel.height % 2 = 0
                   => 2 * pixel.py = pixel.height - 2 * pixel.y
    /\ turtle_to_pixel(10, 20, 100, 100) = <<60, 30>>

\* a coordinate left of and above the centre of an image of odd width and
\* even height has been transformed
C16_Witness ==
    /\ pixel.pc = "done"
    /\ pixel.x < 0
    /\ pixel.y > 0
    /\ pixel.width % 2 = 1
    /\ pixel.height % 2 = 0
    /\ pixel.py < pixel.height \div 2


\* C17: when the table or the image of the selected map cannot be loaded,
\* the run shows the failure and not the guess input, so no guess can be
\* submitted, and no session state has been set up for that map
C17_LoadFailureLeavesNoState ==
    (<<map_choice, "csv">> \in broken \/ <<map_choice, "image">> \in broken)
       => /\ page.exception # "none"
          /\ ~page.text_input
          /\ \A raw \in LoadInputs : ~ENABLED SubmitGuess(raw)
          /\ "map_choice" \in DOMAIN session_state
                => session_state.map_choice # map_choice

\* the player switched, with a name guessed, to a map whose image cannot
\* be loaded
C17_Witness ==
    /\ event.kind = "select"
    /\ event.before # <<>>
    /\ <<map_choice, "image">> \in broken
    /\ page.exception = "load_image"


\* C18: the guessed list never holds a normalized name twice, so it is never
\* longer than TOTAL and the fraction given to st.progress lies in [0, 1]
C18_NoDuplicateGuesses ==
    /\ \A i, k \in 1..Len(session_state.guessed) :
          session_state.guessed[i] = session_state.guessed[k] => i = k
    /\ Len(session_state.guessed) <= TOTAL
    /\ Len(guessed) <= TOTAL
    /\ page.progress = <<Len(guessed), TOTAL>>
    /\ page.progress[2] > 0
    /\ 0 <= page.progress[1]
    /\ page.progress[1] <= page.progress[2]

\* a name already guessed is submitted again with the map complete
C18_Witness ==
    /\ message.kind = "info"
    /\ Len(event.before) = TOTAL
    /\ page.progress = <<TOTAL, TOTAL>>
    /\ TOTAL = 3


\* C19: the completion message is shown exactly when the guessed names are
\* all the normalized names of the selected map; once every region name of
\* the map has been submitted since the last reset or map switch it is
\* shown, and it stays shown through every further guess, until a reset or
\* a map switch
C19_CompletedIffAllGuessed ==
    /\ completed <=> ToSet(session_state.guessed) = RegionSet(map_choice)
    /\ named_log = RegionSet(map_choice) => completed
    /\ (event.kind = "guess" /\ ToSet(event.before) = RegionSet(event.map))
          => completed
    /\ event.kind \in {"reset", "select"} => ~completed

\* all three region names of a map have been submitted and an invalid
\* guess followed: the completion message is still shown
C19_Witness ==
    /\ completed
    /\ message.kind = "error"
    /\ Len(event.before) = 3
    /\ named_log = RegionSet(map_choice)

====
